---- MODULE Spec2Model ----
(***************************************************************************)
(* A model of get-youtube-chapters (src/index.js): the cascade of six      *)
(* chapter-list parsers over a video description, the shared line loop of  *)
(* makeChapterParser, and the timestamp extractor parseFlexibleTimestamps. *)
(*                                                                         *)
(* Text is the sequence of its UTF-16 code units, as a string of the       *)
(* source is.  A description is the code units of the whole text, line     *)
(* feeds included; a line is what split('\n') leaves.  Every regular       *)
(* expression of the source is an operator that matches as the             *)
(* backtracking matcher of JavaScript does (leftmost start, alternatives   *)
(* in order, greedy and lazy quantifiers, ^ and $ under the flags of the   *)
(* RegExp) and yields the capture groups.                                  *)
(***************************************************************************)
EXTENDS Integers, Sequences, FiniteSets

\* ------------------------------------------------------------------------
\* Characters
\* ------------------------------------------------------------------------

\* The code unit of a character the model writes as a one-character
\* string: the characters of the patterns and of the model's texts.
Code(c) ==
    CASE c = "0" -> 48 [] c = "1" -> 49 [] c = "2" -> 50 [] c = "3" -> 51
      [] c = "4" -> 52 [] c = "5" -> 53 [] c = "6" -> 54 [] c = "7" -> 55
      [] c = "8" -> 56 [] c = "9" -> 57 [] c = ":" -> 58 [] c = "." -> 46
      [] c = "[" -> 91 [] c = "]" -> 93 [] c = "(" -> 40 [] c = ")" -> 41
      [] c = " " -> 32 [] c = "\t" -> 9 [] c = "\n" -> 10 [] c = "\r" -> 13
      [] c = "\f" -> 12 [] c = "A" -> 65 [] c = "B" -> 66

\* The text of a sequence of such characters.
Text(cs) ==
    [n \in 1..Len(cs) |-> Code(cs[n])]

\* The characters the patterns name.
Colon ==
    Code(":")

FullStop ==
    Code(".")

LeftBracket ==
    Code("[")

RightBracket ==
    Code("]")

LeftParen ==
    Code("(")

RightParen ==
    Code(")")

LineFeed ==
    Code("\n")

\* The texts 00:00 and 0:00 of the start patterns.
PaddedZero ==
    Text(<<"0", "0", ":", "0", "0">>)

PlainZero ==
    Text(<<"0", ":", "0", "0">>)

\* \d: 0 to 9.
Digits ==
    48..57

\* The line terminators: line feed, carriage return, U+2028 and U+2029.
\* "." matches every code unit but these, and the ^ and $ of a pattern with
\* the m flag also match after one and before one.
LineTerminators ==
    {10, 13, 8232, 8233}

\* \s, and what String.prototype.trim removes: the line terminators and
\* tab, vertical tab, form feed, space, no-break space, U+1680, U+2000 to
\* U+200A, U+202F, U+205F, U+3000 and U+FEFF.
WhiteSpace ==
    LineTerminators \cup {9, 11, 12, 32, 160, 5760, 8239, 8287, 12288, 65279}
    \cup 8192..8202

\* Characters after position i of s, s[i] included.
From(s, i) ==
    SubSeq(s, i, Len(s))

RECURSIVE DigitRunEnd(_, _)
\* \d* at position i: the position after the longest run of digits from i.
DigitRunEnd(s, i) ==
    IF i <= Len(s) /\ s[i] \in Digits THEN DigitRunEnd(s, i + 1) ELSE i

RECURSIVE DotRunEnd(_, _)
\* .* at position i: the position after the longest run of characters that
\* are no line terminator.
DotRunEnd(s, i) ==
    IF i <= Len(s) /\ s[i] \notin LineTerminators THEN DotRunEnd(s, i + 1) ELSE i

RECURSIVE SpaceRunEnd(_, _)
\* \s* at position i: the position after the longest run of white space.
SpaceRunEnd(s, i) ==
    IF i <= Len(s) /\ s[i] \in WhiteSpace THEN SpaceRunEnd(s, i + 1) ELSE i

RECURSIVE SpaceRunStart(_, _)
\* The first position of the run of white space that ends just before i.
SpaceRunStart(s, i) ==
    IF i > 1 /\ s[i - 1] \in WhiteSpace THEN SpaceRunStart(s, i - 1) ELSE i

\* The least number of a non-empty set of numbers.
Least(S) ==
    CHOOSE x \in S : \A y \in S : x <= y

\* String.prototype.trim
trim(s) ==
    SubSeq(s, SpaceRunEnd(s, 1), SpaceRunStart(s, Len(s) + 1) - 1)

\* The value of a digit.
DigitValue(c) ==
    c - 48

(* Numbers.  A Number of the source is a double; the ones this program   *)
(* makes are non-negative integers or Infinity.  The model writes such a   *)
(* number as the sequence of the decimal digits of its exact value, the    *)
(* most significant first and 0 as <<0>>, and Infinity as the empty        *)
(* sequence; every operation rounds to the nearest double, ties to the     *)
(* even significand, as the source's arithmetic does.                      *)

\* The sequence s from its last element to its first.
Reverse(s) ==
    [n \in 1..Len(s) |-> s[Len(s) + 1 - n]]

\* The digits ds without leading zeros.
Normal(ds) ==
    LET Among(ns) ==
            IF ns = {} THEN <<0>> ELSE From(ds, Least(ns))
    IN  Among({n \in 1..Len(ds) : ds[n] # 0})

\* Whether the natural number a is less than the natural number b.
Less(a, b) ==
    \/ Len(a) < Len(b)
    \/ /\ Len(a) = Len(b)
       /\ \E k \in 1..Len(a) :
             a[k] < b[k] /\ \A j \in 1..(k - 1) : a[j] = b[j]

\* Whether the natural number a is odd.
Odd(a) ==
    a[Len(a)] % 2 = 1

\* The natural number a halved, rounded down.
Halve(a) ==
    Normal([n \in 1..Len(a) |->
               (10 * (IF n = 1 THEN 0 ELSE a[n - 1] % 2) + a[n]) \div 2])

\* Twice the natural number a.
Double(a) ==
    (IF a[1] >= 5 THEN <<1>> ELSE <<>>)
    \o [n \in 1..Len(a) |->
           ((2 * a[n]) % 10) + (IF n < Len(a) /\ a[n + 1] >= 5 THEN 1 ELSE 0)]

RECURSIVE CarryRev(_)
\* The digits of the natural number c, the least significant first; none
\* for 0.
CarryRev(c) ==
    IF c = 0 THEN <<>> ELSE <<c % 10>> \o CarryRev(c \div 10)

RECURSIVE AddRev(_, _, _)
\* x + y + c on digits with the least significant first.
AddRev(x, y, c) ==
    IF x = <<>> /\ y = <<>> THEN CarryRev(c)
    ELSE LET sum == (IF x = <<>> THEN 0 ELSE Head(x))
                    + (IF y = <<>> THEN 0 ELSE Head(y)) + c
         IN  <<sum % 10>>
             \o AddRev(IF x = <<>> THEN x ELSE Tail(x),
                       IF y = <<>> THEN y ELSE Tail(y), sum \div 10)

\* The exact sum of the natural numbers a and b.
Add(a, b) ==
    Reverse(AddRev(Reverse(a), Reverse(b), 0))

RECURSIVE MulRev(_, _, _)
\* x * k + c on digits with the least significant first.
MulRev(x, k, c) ==
    IF x = <<>> THEN CarryRev(c)
    ELSE <<(Head(x) * k + c) % 10>>
         \o MulRev(Tail(x), k, (Head(x) * k + c) \div 10)

\* The exact product of the natural number a and the small natural k.
Mul(a, k) ==
    Normal(Reverse(MulRev(Reverse(a), k, 0)))

RECURSIVE Scale(_, _)
\* a * 2^e
Scale(a, e) ==
    IF a = <<0>> \/ e = 0 THEN a
    ELSE IF e = 1 THEN Double(a)
    ELSE Scale(Scale(a, e \div 2), e - (e \div 2))

RECURSIVE HalveBy(_, _)
\* a \div 2^e
HalveBy(a, e) ==
    IF a = <<0>> \/ e = 0 THEN a
    ELSE IF e = 1 THEN Halve(a)
    ELSE HalveBy(HalveBy(a, e \div 2), e - (e \div 2))

\* 2^53: every natural number up to it is a double.
TwoTo53 ==
    Scale(<<1>>, 53)

\* 2^1024: what rounds to it or above is Infinity.
TwoTo1024 ==
    Scale(<<1>>, 1024)

\* The Number Infinity.
Infinity ==
    <<>>

RECURSIVE BitLength(_, _, _)
\* The number of bits of the natural number a, where 2^lo <= a < 2^hi.
BitLength(a, lo, hi) ==
    IF hi = lo + 1 THEN hi
    ELSE IF Less(a, Scale(<<1>>, (lo + hi) \div 2))
         THEN BitLength(a, lo, (lo + hi) \div 2)
         ELSE BitLength(a, (lo + hi) \div 2, hi)

\* The double nearest to the natural number a: a itself below 2^53, and
\* from there a rounded to its 53 most significant bits, to the even one of
\* two equally near.
Round(a) ==
    LET Nearest(q, e) ==
            LET down == Scale(q, e)
                up == Scale(Add(q, <<1>>), e)
                middle == Scale(Add(Double(q), <<1>>), e - 1)
            IN  IF Less(a, middle) THEN down
                ELSE IF Less(middle, a) THEN up
                ELSE IF Odd(q) THEN up ELSE down
        Shifted(e) ==
            Nearest(HalveBy(a, e), e)
        Bounded(r) ==
            IF Less(r, TwoTo1024) THEN r ELSE Infinity
    IN  IF Less(a, TwoTo53) THEN a
        ELSE IF ~Less(a, TwoTo1024) THEN Infinity
        ELSE IF 4 * Len(a) < 1024
             THEN Bounded(Shifted(BitLength(a, 53, 4 * Len(a)) - 53))
             ELSE Bounded(Shifted(BitLength(a, 53, 1024) - 53))

\* x * k of the source, for a Number x and a small natural k.
Times(x, k) ==
    IF x = Infinity THEN Infinity ELSE Round(Mul(x, k))

\* x + y of the source, for Numbers x and y.
Plus(x, y) ==
    IF x = Infinity \/ y = Infinity THEN Infinity ELSE Round(Add(x, y))

\* parseInt(ds, 10) of a non-empty run of digits: the double nearest to the
\* number the digits write.
parseInt(ds) ==
    Round(Normal([n \in 1..Len(ds) |-> DigitValue(ds[n])]))

\* ------------------------------------------------------------------------
\* (?:(\d+):)?(\d+):(\d+)  -- the timestamp every pattern contains
\* ------------------------------------------------------------------------

\* A failed match (exec returns null, test returns false).
NoMatch ==
    [ok |-> FALSE]

\* Whether text s holds the characters of w from position i on.
LooksAt(s, i, w) ==
    i + Len(w) - 1 <= Len(s) /\ SubSeq(s, i, i + Len(w) - 1) = w

\* (?:(\d+):)?(\d+):(\d+) at position i; end is the position after the
\* match.  A group that did not take part is the empty text (undefined in
\* the source: a group that takes part holds at least one digit).  The
\* hours group is tried first, so three runs of digits are hours, minutes
\* and seconds; with only two the hours group is given up.  What follows
\* the timestamp in every pattern of the source does not begin with a
\* digit or a colon, so no shorter run of digits and no other split can let
\* the rest of a pattern match when this one does not.
Hms(s, i) ==
    LET Two(e1, e2) ==
            [ok |-> TRUE, hours |-> <<>>, minutes |-> SubSeq(s, i, e1 - 1),
             seconds |-> SubSeq(s, e1 + 1, e2 - 1), end |-> e2]
        Three(e1, e2, e3) ==
            IF e3 > e2 + 1
            THEN [ok |-> TRUE, hours |-> SubSeq(s, i, e1 - 1),
                  minutes |-> SubSeq(s, e1 + 1, e2 - 1),
                  seconds |-> SubSeq(s, e2 + 1, e3 - 1), end |-> e3]
            ELSE Two(e1, e2)
        Second(e1, e2) ==
            IF e2 = e1 + 1 THEN NoMatch
            ELSE IF LooksAt(s, e2, <<Colon>>) THEN Three(e1, e2, DigitRunEnd(s, e2 + 1))
            ELSE Two(e1, e2)
        First(e1) ==
            IF e1 > i /\ LooksAt(s, e1, <<Colon>>)
            THEN Second(e1, DigitRunEnd(s, e1 + 1))
            ELSE NoMatch
    IN  First(DigitRunEnd(s, i))

\* open \s* (?:(\d+):)?(\d+):(\d+) \s* close at position i, for "[" "]" and
\* "(" ")".
Enclosed(s, i, open, close) ==
    LET Closed(t, q) ==
            IF LooksAt(s, q, <<close>>) THEN [t EXCEPT !.end = q + 1] ELSE NoMatch
        Inside(t) ==
            IF t.ok THEN Closed(t, SpaceRunEnd(s, t.end)) ELSE NoMatch
    IN  IF LooksAt(s, i, <<open>>) THEN Inside(Hms(s, SpaceRunEnd(s, i + 1)))
        ELSE NoMatch

\* a | b: the first alternative that matches.
Either(a, b) ==
    IF a.ok THEN a ELSE b

\* The three alternatives of timestampRegex at position i, in their order.
timestampRegexAt(s, i) ==
    Either(Enclosed(s, i, LeftBracket, RightBracket),
           Either(Enclosed(s, i, LeftParen, RightParen), Hms(s, i)))

\* timestampRegex.exec(line): the match at the leftmost position that has
\* one, with its first position as index.
timestampRegex(line) ==
    LET Found(index, m) ==
            [ok |-> TRUE, index |-> index, hours |-> m.hours,
             minutes |-> m.minutes, seconds |-> m.seconds, end |-> m.end]
        Leftmost(index) ==
            Found(index, timestampRegexAt(line, index))
        Among(at) ==
            IF at = {} THEN NoMatch ELSE Leftmost(Least(at))
    IN  Among({n \in 1..Len(line) : timestampRegexAt(line, n).ok})

\* .replace(/^\d+\.\s*/, '')
stripOrdinal(s) ==
    LET Strip(e) ==
            IF e > 1 /\ LooksAt(s, e, <<FullStop>>) THEN From(s, SpaceRunEnd(s, e + 1))
            ELSE s
    IN  Strip(DigitRunEnd(s, 1))

\* match[k] || '0'
orZero(group) ==
    IF group = <<>> THEN <<Code("0")>> ELSE group

\* parseFlexibleTimestamps(line): { timestamp, title }.
parseFlexibleTimestamps(line) ==
    LET Parsed(match) ==
            IF ~match.ok THEN [timestamp |-> <<0>>, title |-> line]
            ELSE [timestamp |->
                      Plus(Plus(Times(parseInt(orZero(match.hours)), 3600),
                                Times(parseInt(orZero(match.minutes)), 60)),
                           parseInt(orZero(match.seconds))),
                  title |-> trim(stripOrdinal(SubSeq(line, 1, match.index - 1)
                                              \o From(line, match.end)))]
    IN  Parsed(timestampRegex(line))

\* ------------------------------------------------------------------------
\* The patterns of the six formats (index.js, lines 104 to 117)
\* ------------------------------------------------------------------------

\* ^ at position i of s: the start of the text and, with the m flag, the
\* position after a line terminator.
AtStart(s, i, flags) ==
    i = 1 \/ ("m" \in flags /\ s[i - 1] \in LineTerminators)

\* $ at position i of s: the end of the text and, with the m flag, the
\* position of a line terminator.
AtEnd(s, i, flags) ==
    i = Len(s) + 1 \/ ("m" \in flags /\ s[i] \in LineTerminators)

\* The positions of s where ^ matches, in the order exec tries them.
Starts(s, flags) ==
    LET Start(i) == AtStart(s, i, flags)
    IN  SelectSeq([i \in 1..(Len(s) + 1) |-> i], Start)

\* The first match of a sequence of attempts.
FirstOk(ms) ==
    LET Among(ks) ==
            IF ks = {} THEN NoMatch ELSE ms[Least(ks)]
    IN  Among({k \in 1..Len(ms) : ms[k].ok})

\* 0?0:00 at position i.  The optional 0 is tried first.
ZeroTime(s, i) ==
    IF LooksAt(s, i, PaddedZero) THEN i + 5
    ELSE IF LooksAt(s, i, PlainZero) THEN i + 4
    ELSE 0

\* /^0?0:00/
lawfulStartRx(line, flags) ==
    LET ps == Starts(line, flags)
    IN  [ok |-> \E k \in 1..Len(ps) : ZeroTime(line, ps[k]) > 0]

\* The Brackets start pattern without its optional 0: /^\[0:00\]/.
bracketsStartRxNoPad(line, flags) ==
    LET ps == Starts(line, flags)
    IN  [ok |-> \E k \in 1..Len(ps) :
                   LooksAt(line, ps[k], <<LeftBracket>> \o PlainZero \o <<RightBracket>>)]

\* /^\[(?:0?0:00|00:00)\]/ : the second alternative adds nothing to the
\* first.
bracketsStartRx(line, flags) ==
    LET ps == Starts(line, flags)
        Closed(p, e) ==
            \/ e > 0 /\ LooksAt(line, e, <<RightBracket>>)
            \/ LooksAt(line, p + 1, PaddedZero \o <<RightBracket>>)
    IN  [ok |-> \E k \in 1..Len(ps) :
                   /\ LooksAt(line, ps[k], <<LeftBracket>>)
                   /\ Closed(ps[k], ZeroTime(line, ps[k] + 1))]

\* /^\(0?0:00\)/
parensStartRx(line, flags) ==
    LET ps == Starts(line, flags)
        Closed(e) ==
            e > 0 /\ LooksAt(line, e, <<RightParen>>)
    IN  [ok |-> \E k \in 1..Len(ps) :
                   /\ LooksAt(line, ps[k], <<LeftParen>>)
                   /\ Closed(ZeroTime(line, ps[k] + 1))]

\* \s+(.*?)$ or \s+(.*)$ after the timestamp t that ends before position
\* t.end.  The white space is taken whole; the text, lazy or greedy, runs to
\* the first line terminator or to the end of s, and $ has to match there:
\* giving white space back to the text puts no $ nearer.  groups[n] is
\* match[n] of the source: a group that did not take part is the empty
\* text.
ThenText(s, t, flags) ==
    LET Rest(w, e) ==
            IF AtEnd(s, e, flags)
            THEN [ok |-> TRUE,
                  groups |-> <<t.hours, t.minutes, t.seconds, SubSeq(s, w, e - 1)>>]
            ELSE NoMatch
        Spaced(w) ==
            Rest(w, DotRunEnd(s, w))
    IN  IF t.ok /\ t.end <= Len(s) /\ s[t.end] \in WhiteSpace
        THEN Spaced(SpaceRunEnd(s, t.end))
        ELSE NoMatch

\* open (?:(\d+):)?(\d+):(\d+) close at position i, with no white space
\* inside, as the line patterns of Brackets and Parens have it.
Tight(s, i, open, close) ==
    LET Closed(t) ==
            IF t.ok /\ LooksAt(s, t.end, <<close>>)
            THEN [t EXCEPT !.end = t.end + 1]
            ELSE NoMatch
    IN  IF LooksAt(s, i, <<open>>) THEN Closed(Hms(s, i + 1)) ELSE NoMatch

\* /^(?:(\d+):)?(\d+):(\d+)\s+(.*?)$/
lawfulLineRx(line, flags) ==
    LET ps == Starts(line, flags)
    IN  FirstOk([k \in 1..Len(ps) |-> ThenText(line, Hms(line, ps[k]), flags)])

\* /^\[(?:(\d+):)?(\d+):(\d+)\]\s+(.*?)$/
bracketsLineRx(line, flags) ==
    LET ps == Starts(line, flags)
    IN  FirstOk([k \in 1..Len(ps) |->
                    ThenText(line, Tight(line, ps[k], LeftBracket, RightBracket), flags)])

\* /^\((?:(\d+):)?(\d+):(\d+)\)\s+(.*?)$/
parensLineRx(line, flags) ==
    LET ps == Starts(line, flags)
    IN  FirstOk([k \in 1..Len(ps) |->
                    ThenText(line, Tight(line, ps[k], LeftParen, RightParen), flags)])

\* The positions after (?:\d+\.\s+)? at position p of s, in the order the
\* matcher tries them: the ordinal with all its white space, then with less
\* of it (one character at least), then no ordinal.
AfterOrdinal(s, p) ==
    LET Spaced(e, w) ==
            [k \in 1..(w - e - 1) |-> w - k + 1] \o <<p>>
        Dotted(e) ==
            IF e > p /\ LooksAt(s, e, <<FullStop>>) THEN Spaced(e, SpaceRunEnd(s, e + 1))
            ELSE <<p>>
    IN  Dotted(DigitRunEnd(s, p))

RECURSIVE OrdinalStarts(_, _)
\* The positions after ^(?:\d+\.\s+)? for the positions ps of ^, in the
\* order the matcher tries them.
OrdinalStarts(s, ps) ==
    IF ps = <<>> THEN <<>>
    ELSE AfterOrdinal(s, Head(ps)) \o OrdinalStarts(s, Tail(ps))

\* Whether the match t ends where $ matches.
ReachesEnd(s, t, flags) ==
    t.ok /\ AtEnd(s, t.end, flags)

\* The timestamp that ends a Postfix line, (?:(\d+):)?(\d+):(\d+), or a
\* Postfix-Paren line, \(\s*(?:(\d+):)?(\d+):(\d+)\s*\), at position i.
Stamp(s, i, paren) ==
    IF paren THEN Enclosed(s, i, LeftParen, RightParen) ELSE Hms(s, i)

\* (.*?)\s+ stamp $ from position a: the lazy title holds no line
\* terminator and ends at the first white space from which white space and
\* a timestamp reach a position where $ matches.
TitleThenStamp(s, a, paren, flags) ==
    LET Groups(j, t) ==
            [ok |-> TRUE,
             groups |-> <<SubSeq(s, a, j - 1), t.hours, t.minutes, t.seconds>>]
        EndsAt(j) ==
            Groups(j, Stamp(s, SpaceRunEnd(s, j), paren))
        Among(js) ==
            IF js = {} THEN NoMatch ELSE EndsAt(Least(js))
    IN  Among({j \in a..Len(s) :
                  /\ s[j] \in WhiteSpace
                  /\ j <= DotRunEnd(s, a)
                  /\ ReachesEnd(s, Stamp(s, SpaceRunEnd(s, j), paren), flags)})

\* The first match of (.*?)\s+ stamp $ over the start positions as, in
\* their order.
FirstMatch(s, as, paren, flags) ==
    FirstOk([k \in 1..Len(as) |-> TitleThenStamp(s, as[k], paren, flags)])

\* /^(?:\d+\.\s+)?(.*?)\s+(?:(\d+):)?(\d+):(\d+)$/
postfixRx(line, flags) ==
    FirstMatch(line, OrdinalStarts(line, Starts(line, flags)), FALSE, flags)

\* /^(?:\d+\.\s+)?(.*?)\s+\(\s*(?:(\d+):)?(\d+):(\d+)\s*\)$/
postfixParenRx(line, flags) ==
    FirstMatch(line, OrdinalStarts(line, Starts(line, flags)), TRUE, flags)

\* /^(?:\d+\.\s+)?(?:(\d+):)?(\d+):(\d+)\s+(.*)$/
prefixRx(line, flags) ==
    LET as == OrdinalStarts(line, Starts(line, flags))
    IN  FirstOk([k \in 1..Len(as) |-> ThenText(line, Hms(line, as[k]), flags)])

\* A RegExp object: the pattern (by the name of the operator that matches
\* it) and its flags.
RegExp(source, flags) ==
    [source |-> source, flags |-> flags]

\* addM(regex)
addM(regex) ==
    IF "m" \notin regex.flags
    THEN RegExp(regex.source, regex.flags \cup {"m"})
    ELSE regex

\* regex.exec(line): the pattern of the source matched under its flags.
exec(regex, line) ==
    CASE regex.source = "lawfulStartRx" -> lawfulStartRx(line, regex.flags)
      [] regex.source = "lawfulLineRx" -> lawfulLineRx(line, regex.flags)
      [] regex.source = "bracketsStartRx" -> bracketsStartRx(line, regex.flags)
      [] regex.source = "bracketsLineRx" -> bracketsLineRx(line, regex.flags)
      [] regex.source = "parensStartRx" -> parensStartRx(line, regex.flags)
      [] regex.source = "parensLineRx" -> parensLineRx(line, regex.flags)
      [] regex.source = "postfixRx" -> postfixRx(line, regex.flags)
      [] regex.source = "postfixParenRx" -> postfixParenRx(line, regex.flags)
      [] regex.source = "prefixRx" -> prefixRx(line, regex.flags)

\* regex.test(line)
test(regex, line) ==
    exec(regex, line).ok

\* makeChapterParser(startRx, lineRx, timestampIndex, textIndex): what the
\* returned function closes over, the two indices moved past match[0]
\* (lines 19 and 20).  The function's body is the actions below.
makeChapterParser(startRx, lineRx, timestampIndex, textIndex) ==
    [startRx |-> startRx, lineRx |-> lineRx,
     timestampIndex |-> timestampIndex + 1, textIndex |-> textIndex + 1]

lawfulParser ==
    makeChapterParser(RegExp("lawfulStartRx", {"m"}), RegExp("lawfulLineRx", {}), 0, 3)

bracketsParser ==
    makeChapterParser(RegExp("bracketsStartRx", {}), RegExp("bracketsLineRx", {}), 0, 3)

parensParser ==
    makeChapterParser(RegExp("parensStartRx", {"m"}), RegExp("parensLineRx", {}), 0, 3)

postfixParser ==
    makeChapterParser(addM(RegExp("postfixRx", {})), RegExp("postfixRx", {}), 1, 0)

postfixParenParser ==
    makeChapterParser(addM(RegExp("postfixParenRx", {})), RegExp("postfixParenRx", {}), 1, 0)

prefixParser ==
    makeChapterParser(addM(RegExp("prefixRx", {})), RegExp("prefixRx", {}), 0, 3)

\* The six parsers with Prefix tried first.
ParsersPrefixFirst ==
    <<prefixParser, lawfulParser, bracketsParser, parensParser,
      postfixParser, postfixParenParser>>

\* The six parsers in the order parseYouTubeChapters calls them (lines 126
\* to 131).
Parsers ==
    <<lawfulParser, bracketsParser, parensParser,
      postfixParser, postfixParenParser, prefixParser>>

\* ------------------------------------------------------------------------
\* skipEmptyLines
\* ------------------------------------------------------------------------

RECURSIVE split(_)
\* description.split('\n'): the texts between the line feeds, one more
\* than there are line feeds.
split(text) ==
    LET At(n) ==
            <<SubSeq(text, 1, n - 1)>> \o split(From(text, n + 1))
        Among(feeds) ==
            IF feeds = {} THEN <<text>> ELSE At(Least(feeds))
    IN  Among({n \in 1..Len(text) : text[n] = LineFeed})

\* (line) => line.trim() !== ''
nonEmpty(line) ==
    trim(line) # <<>>

\* skipEmptyLines that drops the empty lines only: line !== ''.
skipOnlyEmpty(text) ==
    LET NotEmpty(line) == line # <<>>
    IN  SelectSeq(split(text), NotEmpty)

\* skipEmptyLines(description)
skipEmptyLines(text) ==
    SelectSeq(split(text), nonEmpty)

\* ------------------------------------------------------------------------
\* The descriptions the parsers are run on
\* ------------------------------------------------------------------------

\* The most lines of a description built from ListLines.
MaxLines == 3

\* Single lines: an ordinal, a leading text, a timestamp in one of the
\* enclosures and a trailing text, each possibly absent.  A form feed, a
\* carriage return, U+2028, a no-break space and a vertical tab stand where
\* white space can, and a carriage return ends a line as it does in a text
\* with CR LF line ends.  The hours 596524 make seconds beyond 2^31 and the
\* hours 9007199254740993 = 2^53 + 1 are no double.
Ordinals ==
    {<<>>, Text(<<"1", ".", " ">>), Text(<<"3", ".">>),
     Text(<<"1", ".", "\f">>)}

Leads ==
    {<<>>, Text(<<"A", " ">>), Text(<<"5", " ", "A", " ">>),
     Text(<<"A", " ", "2", ":", "0", "5", " ">>), Text(<<"A", "\r">>),
     Text(<<"A">>) \o <<8232>>}

Stamps ==
    {<<>>, PlainZero, PaddedZero,
     Text(<<"1", ":", "0", "2", ":", "0", "3">>), Text(<<"1", ":", "9", "9">>),
     Text(<<"5", "9", "6", "5", "2", "4", ":", "0", "0", ":", "0", "0">>),
     Text(<<"9", "0", "0", "7", "1", "9", "9", "2", "5", "4", "7", "4", "0",
            "9", "9", "3", ":", "0", "0", ":", "0", "0">>)}

Enclosures ==
    {<< <<>>, <<>> >>,
     << <<LeftBracket>>, <<RightBracket>> >>,
     << <<LeftParen>>, <<RightParen>> >>,
     << Text(<<"(", " ">>), Text(<<" ", ")">>) >>}

Trails ==
    {<<>>, Text(<<" ", "B">>), Text(<<" ", "1", ".", " ", "B">>),
     Text(<<" ", "B", "\r">>), Text(<<" ", "B">>) \o <<160, 11>>}

SingleLines ==
    {o \o l \o e[1] \o t \o e[2] \o r :
        o \in Ordinals, l \in Leads, e \in Enclosures, t \in Stamps, r \in Trails}

\* The lines of the longer descriptions: Lawful, Brackets and Prefix lines,
\* a Lawful line that ends with a carriage return, a line that is only a
\* timestamp, plain text, an empty and a blank line.
ListLines ==
    {Text(<<"0", ":", "0", "0", " ", "A">>),
     Text(<<"0", ":", "0", "0", " ", "A", "\r">>),
     PlainZero,
     Text(<<"2", ":", "0", "5", " ", "B">>),
     Text(<<"[", "0", ":", "0", "0", "]", " ", "A">>),
     Text(<<"1", ".", " ", "1", ":", "3", "0", " ", "B">>),
     Text(<<"B">>),
     <<>>,
     Text(<<" ", "\r">>)}

RECURSIVE Join(_)
\* lines.join('\n')
Join(lines) ==
    IF lines = <<>> THEN <<>>
    ELSE IF Len(lines) = 1 THEN lines[1]
    ELSE lines[1] \o <<LineFeed>> \o Join(Tail(lines))

Descriptions ==
    {Join(ls) : ls \in UNION {[1..n -> ListLines] : n \in 0..MaxLines}}

Inputs ==
    SingleLines \cup Descriptions

\* ------------------------------------------------------------------------
\* State
\* ------------------------------------------------------------------------

VARIABLES
    description,    \* the argument of the call
    entry,          \* what was called: 0 for parseYouTubeChapters, k for
                    \* the k-th parser alone
    pc,             \* where the call stands: "parser" (line 23), "loop"
                    \* (line 32), "returned" (back in the caller), "done"
    parser,         \* the number of the parser that runs, 1 to 6
    nonEmptyLines,  \* line 24
    firstTimestamp, \* line 25, counted from 0; -1 when no line matches
    i,              \* line 32, counted from 0
    chapters,       \* line 23: the parser's array
    result,         \* what the call returned
    origin,         \* history: for each chapter, the position in
                    \* nonEmptyLines (from 1) of the line it was made from
    tested,         \* history: the positions in nonEmptyLines of the lines
                    \* lineRx was run on, in this parser
    returned        \* history: what each parser called so far returned

vars ==
    <<description, entry, pc, parser, nonEmptyLines, firstTimestamp, i,
      chapters, result, origin, tested, returned>>

\* A chapter: { start, title }.
Chapter(start, title) ==
    [start |-> start, title |-> title]

\* (line) => startRx.test(line), line 25, in the parser that runs.
startsList(line) ==
    test(Parsers[parser].startRx, line)

\* lines.findIndex(startsList), line 25, counted from 0.
findIndex(lines) ==
    LET Among(at) ==
            IF at = {} THEN -1 ELSE Least(at) - 1
    IN  Among({n \in 1..Len(lines) : startsList(lines[n])})

\* nonEmptyLines.slice(firstTimestamp), line 31.
chapterLines ==
    From(nonEmptyLines, firstTimestamp + 1)

Init ==
    /\ description \in Inputs
    /\ entry \in 0..Len(Parsers)
    /\ pc = "parser"
    /\ parser = IF entry = 0 THEN 1 ELSE entry
    /\ nonEmptyLines = <<>>
    /\ firstTimestamp = -1
    /\ i = 0
    /\ chapters = <<>>
    /\ result = <<>>
    /\ origin = <<>>
    /\ tested = {}
    /\ returned = <<>>

\* NoStart without the return of line 28: the loop runs from the first
\* line.
NoStartScansAll ==
    /\ pc = "parser"
    /\ nonEmptyLines' = skipEmptyLines(description)
    /\ findIndex(nonEmptyLines') = -1
    /\ firstTimestamp' = 0
    /\ chapters' = <<>>
    /\ origin' = <<>>
    /\ tested' = {}
    /\ i' = 0
    /\ pc' = "loop"
    /\ UNCHANGED <<description, entry, parser, result, returned>>

\* Lines 23 to 29: no line matches startRx and the parser returns [].
NoStart ==
    /\ pc = "parser"
    /\ nonEmptyLines' = skipEmptyLines(description)
    /\ firstTimestamp' = findIndex(nonEmptyLines')
    /\ firstTimestamp' = -1
    /\ chapters' = <<>>
    /\ origin' = <<>>
    /\ tested' = {}
    /\ i' = 0
    /\ pc' = "returned"
    /\ UNCHANGED <<description, entry, parser, result, returned>>

\* Lines 23 to 32: a line matches startRx and the loop starts there.
Start ==
    /\ pc = "parser"
    /\ nonEmptyLines' = skipEmptyLines(description)
    /\ firstTimestamp' = findIndex(nonEmptyLines')
    /\ firstTimestamp' # -1
    /\ chapters' = <<>>
    /\ origin' = <<>>
    /\ tested' = {}
    /\ i' = 0
    /\ pc' = "loop"
    /\ UNCHANGED <<description, entry, parser, result, returned>>

\* Skip with break in place of continue: the first line that does not match
\* ends the loop.
SkipBreaks ==
    /\ pc = "loop"
    /\ i < Len(chapterLines)
    /\ ~exec(Parsers[parser].lineRx, chapterLines[i + 1]).ok
    /\ tested' = tested \cup {firstTimestamp + i + 1}
    /\ pc' = "returned"
    /\ UNCHANGED <<description, entry, parser, nonEmptyLines, firstTimestamp,
                   i, chapters, result, origin, returned>>

\* Lines 33 to 37: the line does not match lineRx and is passed over.
Skip ==
    /\ pc = "loop"
    /\ i < Len(chapterLines)
    /\ ~exec(Parsers[parser].lineRx, chapterLines[i + 1]).ok
    /\ tested' = tested \cup {firstTimestamp + i + 1}
    /\ i' = i + 1
    /\ UNCHANGED <<description, entry, pc, parser, nonEmptyLines,
                   firstTimestamp, chapters, result, origin, returned>>

\* Lines 33 to 46: the line matches lineRx and gives a chapter.
Push ==
    /\ pc = "loop"
    /\ i < Len(chapterLines)
    /\ exec(Parsers[parser].lineRx, chapterLines[i + 1]).ok
    /\ LET Made(parsed) == Chapter(parsed.timestamp, trim(parsed.title))
       IN  chapters' = Append(chapters, Made(parseFlexibleTimestamps(chapterLines[i + 1])))
    /\ origin' = Append(origin, firstTimestamp + i + 1)
    /\ tested' = tested \cup {firstTimestamp + i + 1}
    /\ i' = i + 1
    /\ UNCHANGED <<description, entry, pc, parser, nonEmptyLines,
                   firstTimestamp, result, returned>>

\* Lines 32 and 49: the lines are used up and the parser returns.
Return ==
    /\ pc = "loop"
    /\ i >= Len(chapterLines)
    /\ pc' = "returned"
    /\ UNCHANGED <<description, entry, parser, nonEmptyLines, firstTimestamp,
                   i, chapters, result, origin, tested, returned>>

\* NextParser without the test of chapters.length: the next parser is
\* called whatever the last one returned.
NextParserAlways ==
    /\ pc = "returned"
    /\ entry = 0
    /\ parser < Len(Parsers)
    /\ result' = chapters
    /\ returned' = Append(returned, chapters)
    /\ parser' = parser + 1
    /\ pc' = "parser"
    /\ UNCHANGED <<description, entry, nonEmptyLines, firstTimestamp, i,
                   chapters, origin, tested>>

\* Lines 126 to 131: parseYouTubeChapters has nothing yet and calls the
\* next parser.
NextParser ==
    /\ pc = "returned"
    /\ entry = 0
    /\ Len(chapters) = 0
    /\ parser < Len(Parsers)
    /\ result' = chapters
    /\ returned' = Append(returned, chapters)
    /\ parser' = parser + 1
    /\ pc' = "parser"
    /\ UNCHANGED <<description, entry, nonEmptyLines, firstTimestamp, i,
                   chapters, origin, tested>>

\* Lines 127 to 133: parseYouTubeChapters has chapters, or has called the
\* last parser, and returns what it has.
Finish ==
    /\ pc = "returned"
    /\ entry = 0
    /\ Len(chapters) # 0 \/ parser = Len(Parsers)
    /\ result' = chapters
    /\ returned' = Append(returned, chapters)
    /\ pc' = "done"
    /\ UNCHANGED <<description, entry, parser, nonEmptyLines, firstTimestamp,
                   i, chapters, origin, tested>>

\* A parser called alone returns to its caller.
Alone ==
    /\ pc = "returned"
    /\ entry # 0
    /\ result' = chapters
    /\ returned' = Append(returned, chapters)
    /\ pc' = "done"
    /\ UNCHANGED <<description, entry, parser, nonEmptyLines, firstTimestamp,
                   i, chapters, origin, tested>>

Next ==
    \/ NoStart
    \/ Start
    \/ Skip
    \/ Push
    \/ Return
    \/ NextParser
    \/ Finish
    \/ Alone

Spec ==
    Init /\ [][Next]_vars

\* ------------------------------------------------------------------------
\* What the claims speak of
\* ------------------------------------------------------------------------

\* The chapter of one line.
ChapterOf(line) ==
    Chapter(parseFlexibleTimestamps(line).timestamp,
            trim(parseFlexibleTimestamps(line).title))

\* Whether a line matches the start pattern, the line pattern of parser p.
IsStart(p, line) ==
    test(p.startRx, line)

IsChapterLine(p, line) ==
    test(p.lineRx, line)

\* The positions in lines of the start line of parser p and of the lines
\* from there on that match its line pattern.
ChapterPositions(p, lines) ==
    LET starts == {n \in 1..Len(lines) : IsStart(p, lines[n])}
    IN  IF starts = {} THEN {}
        ELSE {n \in Least(starts)..Len(lines) : IsChapterLine(p, lines[n])}

RECURSIVE Ascending(_)
\* The numbers of a finite set, least first.
Ascending(S) ==
    IF S = {} THEN <<>> ELSE <<Least(S)>> \o Ascending(S \ {Least(S)})

\* What parser p is to return on the lines: one chapter for each line from
\* its start line on that matches its line pattern, in their order.
ExpectedChapters(p, lines) ==
    LET at == Ascending(ChapterPositions(p, lines))
    IN  [n \in 1..Len(at) |-> ChapterOf(lines[at[n]])]

\* The parser that runs.
Running ==
    Parsers[parser]

\* C1: parseYouTubeChapters returns the result of the first parser, in the
\* order Lawful, Brackets, Parens, Postfix, Postfix-Paren, Prefix, whose
\* result is not empty, and the empty sequence when all six are empty; no
\* parser after that one is called.
C1_FirstNonEmptyWins ==
    pc = "done" /\ entry = 0 =>
        LET n == Len(returned)
        IN  /\ n \in 1..Len(Parsers)
            /\ parser = n
            /\ result = returned[n]
            /\ \A k \in 1..n :
                 returned[k] = ExpectedChapters(Parsers[k], skipEmptyLines(description))
            /\ \A k \in 1..(n - 1) : returned[k] = <<>>
            /\ n < Len(Parsers) => returned[n] # <<>>
            /\ Parsers = <<lawfulParser, bracketsParser, parensParser,
                           postfixParser, postfixParenParser, prefixParser>>

\* C1 witness: Brackets is the first parser with chapters, and Prefix,
\* which is not called, would have returned other chapters.
C1_Witness ==
    /\ pc = "done" /\ entry = 0
    /\ parser = 2
    /\ result # <<>>
    /\ ExpectedChapters(prefixParser, nonEmptyLines) \notin {<<>>, result}

\* Whether some line of the description matches the start pattern of p.
HasStart(p) ==
    \E n \in 1..Len(split(description)) : IsStart(p, split(description)[n])

\* C2 as stated: whenever some line matches the Lawful start pattern and
\* some line the Prefix start pattern, parseYouTubeChapters returns the
\* result of the Lawful parser.
C2_Original ==
    pc = "done" /\ entry = 0 /\ HasStart(lawfulParser) /\ HasStart(prefixParser) =>
        result = ExpectedChapters(lawfulParser, skipEmptyLines(description))

\* C2 amended: whenever some line matches the Lawful start pattern, some
\* line the Prefix start pattern, and the Lawful parser's result is not
\* empty, parseYouTubeChapters returns the Lawful parser's result and calls
\* no other parser.
C2_LawfulBeforePrefix ==
    /\ pc = "done" /\ entry = 0
    /\ HasStart(lawfulParser) /\ HasStart(prefixParser)
    /\ ExpectedChapters(lawfulParser, skipEmptyLines(description)) # <<>>
    => /\ result = ExpectedChapters(lawfulParser, skipEmptyLines(description))
       /\ Len(returned) = 1

\* C2 witness: both start patterns match, the Lawful result is returned and
\* the Prefix parser would have returned more chapters.
C2_Witness ==
    /\ pc = "done" /\ entry = 0
    /\ HasStart(lawfulParser) /\ HasStart(prefixParser)
    /\ result # <<>>
    /\ result = ExpectedChapters(lawfulParser, nonEmptyLines)
    /\ Len(ExpectedChapters(prefixParser, nonEmptyLines)) > Len(result)

\* C3: when a parser returns, it has made exactly one chapter for each line
\* from the start line on that matches the line pattern, in their order; a
\* line that does not match gives no chapter and does not end the scan.
C3_OneChapterPerMatchingLine ==
    pc = "returned" =>
        /\ origin = Ascending(ChapterPositions(Running, nonEmptyLines))
        /\ chapters = ExpectedChapters(Running, nonEmptyLines)
        /\ firstTimestamp # -1 => tested = (firstTimestamp + 1)..Len(nonEmptyLines)

\* C3 witness: a parser has returned a chapter made from a line before and
\* a chapter made from a line after a line that does not match.
C3_Witness ==
    /\ pc = "returned"
    /\ firstTimestamp # -1
    /\ \E a, b \in (firstTimestamp + 1)..Len(nonEmptyLines) :
         /\ a < b
         /\ ~IsChapterLine(Running, nonEmptyLines[a])
         /\ \E m, n \in 1..Len(origin) : origin[m] < a /\ origin[n] = b

\* C4 as stated: no line that comes after the first line, from the start
\* line on, that does not match the line pattern gives a chapter.
C4_StopsAtFirstNonChapterLine ==
    pc = "returned" =>
        \A n \in 1..Len(origin) :
            \A a \in (firstTimestamp + 1)..origin[n] :
                IsChapterLine(Running, nonEmptyLines[a])

\* Whether text t is one or more digits.
AllDigits(t) ==
    t # <<>> /\ \A n \in 1..Len(t) : t[n] \in Digits

\* Whether text t is white space only (the empty text is).
AllWhite(t) ==
    \A n \in 1..Len(t) : t[n] \in WhiteSpace

\* The ways to read text t as minutes:seconds or hours:minutes:seconds,
\* each a sequence of two or three runs of digits.
BareFields(t) ==
    {<<SubSeq(t, 1, c - 1), SubSeq(t, c + 1, Len(t))>> :
        c \in {c \in 1..Len(t) : /\ t[c] = Colon
                                 /\ AllDigits(SubSeq(t, 1, c - 1))
                                 /\ AllDigits(SubSeq(t, c + 1, Len(t)))}}
    \cup
    {<<SubSeq(t, 1, cd[1] - 1), SubSeq(t, cd[1] + 1, cd[2] - 1), SubSeq(t, cd[2] + 1, Len(t))>> :
        cd \in {cd \in (1..Len(t)) \X (1..Len(t)) :
                   /\ cd[1] < cd[2] /\ t[cd[1]] = Colon /\ t[cd[2]] = Colon
                   /\ AllDigits(SubSeq(t, 1, cd[1] - 1))
                   /\ AllDigits(SubSeq(t, cd[1] + 1, cd[2] - 1))
                   /\ AllDigits(SubSeq(t, cd[2] + 1, Len(t)))}}

\* The ways to read text t as a timestamp between open and close, with
\* white space allowed inside the enclosure on both sides.
EnclosedFields(t, open, close) ==
    IF Len(t) >= 2 /\ t[1] = open /\ t[Len(t)] = close
    THEN UNION {BareFields(SubSeq(t, ab[1], ab[2])) :
                   ab \in {ab \in (2..Len(t)) \X (1..(Len(t) - 1)) :
                              /\ AllWhite(SubSeq(t, 2, ab[1] - 1))
                              /\ AllWhite(SubSeq(t, ab[2] + 1, Len(t) - 1))}}
    ELSE {}

\* The ways to read text t as a timestamp of one of the three shapes.
StampFields(t) ==
    EnclosedFields(t, LeftBracket, RightBracket)
    \cup EnclosedFields(t, LeftParen, RightParen)
    \cup BareFields(t)

\* The first timestamp substring of a line, as <<first position, last
\* position>>: the leftmost one, and the longest of those that start there.
\* <<0, 0>> when the line holds no timestamp.
FirstStamp(line) ==
    LET all == {ab \in (1..Len(line)) \X (1..Len(line)) :
                   ab[1] <= ab[2] /\ StampFields(SubSeq(line, ab[1], ab[2])) # {}}
    IN  IF all = {} THEN <<0, 0>>
        ELSE CHOOSE ab \in all :
                 \A cd \in all : ab[1] < cd[1] \/ (ab[1] = cd[1] /\ ab[2] >= cd[2])

\* The natural number a run of digits writes.
Written(ds) ==
    Normal([n \in 1..Len(ds) |-> DigitValue(ds[n])])

\* hours*3600 + minutes*60 + seconds of two or three runs of digits, as
\* natural numbers.
Seconds(fields) ==
    IF Len(fields) = 3
    THEN Add(Add(Mul(Written(fields[1]), 3600), Mul(Written(fields[2]), 60)),
             Written(fields[3]))
    ELSE Add(Mul(Written(fields[1]), 60), Written(fields[2]))

\* The seconds of the first timestamp substring of a line that has one.
FirstStampSeconds(line) ==
    LET ab == FirstStamp(line)
    IN  Seconds(CHOOSE f \in StampFields(SubSeq(line, ab[1], ab[2])) : TRUE)

\* The line without its first timestamp substring.
WithoutFirstStamp(line) ==
    LET ab == FirstStamp(line)
    IN  SubSeq(line, 1, ab[1] - 1) \o From(line, ab[2] + 1)

\* The text without a leading ordinal: one or more digits, ".", and white
\* space, one character of it at least.
WithoutOrdinal(s) ==
    LET e == DigitRunEnd(s, 1)
    IN  IF e > 1 /\ LooksAt(s, e, <<FullStop>>) /\ SpaceRunEnd(s, e + 1) > e + 1
        THEN From(s, SpaceRunEnd(s, e + 1))
        ELSE s

\* The line a chapter was made from.
SourceLine(n) ==
    nonEmptyLines[origin[n]]

\* C5 as stated: the title of a chapter is its line without the first
\* timestamp substring, then without a leading ordinal only if that text
\* begins with digits, "." and white space, then trimmed; "3.5 mile run"
\* keeps its "3.".
C5_OrdinalNeedsWhiteSpace ==
    \A n \in 1..Len(chapters) :
        chapters[n].title = trim(WithoutOrdinal(WithoutFirstStamp(SourceLine(n))))

\* The digits of a natural number the model writes as a numeral.
Num(n) ==
    IF n = 0 THEN <<0>> ELSE Reverse(CarryRev(n))

\* C6 as stated: the start of every chapter is hours*3600 + minutes*60 +
\* seconds of the first timestamp substring of its line (in brackets, in
\* parentheses or bare), the hours 0 when absent, minutes and seconds of 60
\* or more taken as they are: "1:02:03" is 3723, "2:05" is 125 and "1:99"
\* is 159.
C6_StartIsSecondsOfFirstStamp ==
    \A n \in 1..Len(chapters) :
        /\ FirstStamp(SourceLine(n)) # <<0, 0>>
        /\ chapters[n].start = FirstStampSeconds(SourceLine(n))
        /\ SourceLine(n) = Text(<<"1", ":", "0", "2", ":", "0", "3", " ", "B">>)
             => chapters[n].start = Num(3723)
        /\ SourceLine(n) = Text(<<"2", ":", "0", "5", " ", "B">>)
             => chapters[n].start = Num(125)
        /\ SourceLine(n) = Text(<<"1", ":", "9", "9", " ", "B">>)
             => chapters[n].start = Num(159)

\* C7: a parser that finds no line matching its start pattern returns the
\* empty sequence and runs its line pattern on no line; and on a description
\* that is not empty and has no line matching the start pattern of any of
\* the six parsers, parseYouTubeChapters returns the empty sequence.
C7_NoStartNoChapters ==
    /\ pc \in {"loop", "returned", "done"} /\ ~HasStart(Running) =>
           pc # "loop" /\ chapters = <<>> /\ tested = {}
    /\ /\ pc = "done" /\ entry = 0 /\ description # <<>>
       /\ \A k \in 1..Len(Parsers) : ~HasStart(Parsers[k])
       => result = <<>> /\ Len(returned) = Len(Parsers)

\* C7 witness: parseYouTubeChapters has returned on a description with no
\* start line of any format and a line that matches a line pattern.
C7_Witness ==
    /\ pc = "done" /\ entry = 0 /\ description # <<>>
    /\ \A k \in 1..Len(Parsers) : ~HasStart(Parsers[k])
    /\ \E k \in 1..Len(Parsers) : \E n \in 1..Len(nonEmptyLines) :
         IsChapterLine(Parsers[k], nonEmptyLines[n])
    /\ result = <<>>

\* The lines of a description that are not white space only, in their
\* order.
NonBlankLines(text) ==
    LET NotBlank(line) == ~AllWhite(line)
    IN  SelectSeq(split(text), NotBlank)

\* The first of the results that is not empty, the last when all are.
RECURSIVE FirstNonEmpty(_)
FirstNonEmpty(results) ==
    IF Len(results) = 1 \/ Head(results) # <<>> THEN Head(results)
    ELSE FirstNonEmpty(Tail(results))

\* What a call is to return on a description: of parser e alone, or of
\* parseYouTubeChapters when e is 0.
ExpectedResult(e, text) ==
    IF e # 0 THEN ExpectedChapters(Parsers[e], skipEmptyLines(text))
    ELSE FirstNonEmpty([k \in 1..Len(Parsers) |->
                           ExpectedChapters(Parsers[k], skipEmptyLines(text))])

\* C8: the parsers see the lines of the description that are not empty or
\* white space only, in their order, and nothing else; and the result on a
\* description is the result on the same description with every such line
\* taken out.
C8_BlankLinesChangeNothing ==
    /\ pc # "parser" => nonEmptyLines = NonBlankLines(description)
    /\ pc = "done" => result = ExpectedResult(entry, Join(NonBlankLines(description)))

\* C8 witness: two chapters from a description of three lines, the second
\* one a space and a carriage return.
C8_Witness ==
    /\ pc = "done"
    /\ Len(split(description)) = 3
    /\ split(description)[2] = Text(<<" ", "\r">>)
    /\ Len(result) = 2

\* Whether a line begins with "[0:00]" or "[00:00]".
BeginsWithBracketZero(line) ==
    \/ LooksAt(line, 1, Text(<<"[", "0", ":", "0", "0", "]">>))
    \/ LooksAt(line, 1, Text(<<"[", "0", "0", ":", "0", "0", "]">>))

\* C9 as stated: when the first non-empty line does not begin with "[0:00]"
\* or "[00:00]", the Brackets parser returns the empty sequence.
C9_Original ==
    /\ pc = "returned" /\ Running = bracketsParser
    /\ nonEmptyLines # <<>> /\ ~BeginsWithBracketZero(nonEmptyLines[1])
    => chapters = <<>>

\* C9 amended: the Brackets parser starts at the first non-empty line that
\* begins with "[0:00]" or "[00:00]", whichever line of the description it
\* is; the lines before it give no chapter, and when no non-empty line
\* begins so the parser returns the empty sequence.
C9_BracketsStartOnAnyLine ==
    pc = "returned" /\ Running = bracketsParser =>
        LET starts == {n \in 1..Len(nonEmptyLines) : BeginsWithBracketZero(nonEmptyLines[n])}
        IN  /\ starts = {} => firstTimestamp = -1 /\ chapters = <<>>
            /\ starts # {} =>
                 /\ firstTimestamp = Least(starts) - 1
                 /\ \A n \in 1..Len(origin) : origin[n] >= Least(starts)
                 /\ chapters = ExpectedChapters(bracketsParser, nonEmptyLines)

\* C9 witness: the Brackets parser has returned chapters from a description
\* whose first non-empty line does not begin with "[0:00]" or "[00:00]".
C9_Witness ==
    /\ pc = "returned" /\ Running = bracketsParser
    /\ firstTimestamp >= 1
    /\ ~BeginsWithBracketZero(nonEmptyLines[1])
    /\ chapters # <<>>

\* The seconds of the hours, minutes and seconds groups of match m, the
\* hours group at position at, in the arithmetic of the source.
GroupSeconds(m, at) ==
    Plus(Plus(Times(parseInt(orZero(m.groups[at])), 3600),
              Times(parseInt(m.groups[at + 1]), 60)),
         parseInt(m.groups[at + 2]))

\* C10 as stated: for every chapter, the start is the seconds of the hours,
\* minutes and seconds groups the line pattern captured on its line, and
\* the title is the trimmed text of the title group.
C10_GroupsAgree ==
    \A n \in 1..Len(chapters) :
        LET m == exec(Running.lineRx, SourceLine(n))
        IN  /\ chapters[n].start = GroupSeconds(m, Running.timestampIndex)
            /\ chapters[n].title = trim(m.groups[Running.textIndex])

====
